---- MODULE Spec2Model ----
(***************************************************************************)
(* Atmega_Board_Detector.ino: the ISP detection run of setup().            *)
(* The sketch enters programming mode, reads the signature and the fuses,  *)
(* locates and fingerprints the bootloader and dumps the first 256 bytes   *)
(* of program memory.  The target chip is the environment: it answers the  *)
(* 4-byte ISP commands that program() sends over SPI.                      *)
(***************************************************************************)
EXTENDS Integers, Sequences, FiniteSets, TLC

(***************************************************************************)
(* Program constants                                                       *)
(***************************************************************************)
ENTER_PROGRAMMING_ATTEMPTS == 50

progamEnable == 172
programAcknowledge == 83
readSignatureByte == 48
readCalibrationByte == 56
readLowFuseByte == 80
readLowFuseByteArg2 == 0
readExtendedFuseByte == 80
readExtendedFuseByteArg2 == 8
readHighFuseByte == 88
readHighFuseByteArg2 == 8
readLockByte == 88
readLockByteArg2 == 0
readProgramMemory == 32
loadExtendedAddressByte == 77

lowFuse == 0
highFuse == 1
extFuse == 2
lockByte == 3
calibrationByte == 4

kb == 1024
NO_FUSE == 255

\* widths of the AVR types: byte, unsigned int
BYTE == 256
UINT == 65536

signatures == <<
    [sig |-> <<30, 145, 11>>, desc |-> "ATtiny24", flashSize |-> 2 * kb, baseBootSize |-> 0, pageSize |-> 32, fuseWithBootloaderSize |-> NO_FUSE, timedWrites |-> 0],
    [sig |-> <<30, 146, 7>>, desc |-> "ATtiny44", flashSize |-> 4 * kb, baseBootSize |-> 0, pageSize |-> 64, fuseWithBootloaderSize |-> NO_FUSE, timedWrites |-> 0],
    [sig |-> <<30, 147, 12>>, desc |-> "ATtiny84", flashSize |-> 8 * kb, baseBootSize |-> 0, pageSize |-> 64, fuseWithBootloaderSize |-> NO_FUSE, timedWrites |-> 0],
    [sig |-> <<30, 145, 8>>, desc |-> "ATtiny25", flashSize |-> 2 * kb, baseBootSize |-> 0, pageSize |-> 32, fuseWithBootloaderSize |-> NO_FUSE, timedWrites |-> 0],
    [sig |-> <<30, 146, 6>>, desc |-> "ATtiny45", flashSize |-> 4 * kb, baseBootSize |-> 0, pageSize |-> 64, fuseWithBootloaderSize |-> NO_FUSE, timedWrites |-> 0],
    [sig |-> <<30, 147, 11>>, desc |-> "ATtiny85", flashSize |-> 8 * kb, baseBootSize |-> 0, pageSize |-> 64, fuseWithBootloaderSize |-> NO_FUSE, timedWrites |-> 0],
    [sig |-> <<30, 146, 10>>, desc |-> "ATmega48PA", flashSize |-> 4 * kb, baseBootSize |-> 0, pageSize |-> 64, fuseWithBootloaderSize |-> NO_FUSE, timedWrites |-> 0],
    [sig |-> <<30, 147, 15>>, desc |-> "ATmega88PA", flashSize |-> 8 * kb, baseBootSize |-> 256, pageSize |-> 128, fuseWithBootloaderSize |-> extFuse, timedWrites |-> 0],
    [sig |-> <<30, 148, 11>>, desc |-> "ATmega168PA", flashSize |-> 16 * kb, baseBootSize |-> 256, pageSize |-> 128, fuseWithBootloaderSize |-> extFuse, timedWrites |-> 0],
    [sig |-> <<30, 149, 15>>, desc |-> "ATmega328P", flashSize |-> 32 * kb, baseBootSize |-> 512, pageSize |-> 128, fuseWithBootloaderSize |-> highFuse, timedWrites |-> 0],
    [sig |-> <<30, 149, 20>>, desc |-> "ATmega328", flashSize |-> 32 * kb, baseBootSize |-> 512, pageSize |-> 128, fuseWithBootloaderSize |-> highFuse, timedWrites |-> 0],
    [sig |-> <<30, 148, 10>>, desc |-> "ATmega164P", flashSize |-> 16 * kb, baseBootSize |-> 256, pageSize |-> 128, fuseWithBootloaderSize |-> highFuse, timedWrites |-> 0],
    [sig |-> <<30, 149, 8>>, desc |-> "ATmega324P", flashSize |-> 32 * kb, baseBootSize |-> 512, pageSize |-> 128, fuseWithBootloaderSize |-> highFuse, timedWrites |-> 0],
    [sig |-> <<30, 150, 10>>, desc |-> "ATmega644P", flashSize |-> 64 * kb, baseBootSize |-> 1 * kb, pageSize |-> 256, fuseWithBootloaderSize |-> highFuse, timedWrites |-> 0],
    [sig |-> <<30, 150, 8>>, desc |-> "ATmega640", flashSize |-> 64 * kb, baseBootSize |-> 1 * kb, pageSize |-> 256, fuseWithBootloaderSize |-> highFuse, timedWrites |-> 0],
    [sig |-> <<30, 151, 3>>, desc |-> "ATmega1280", flashSize |-> 128 * kb, baseBootSize |-> 1 * kb, pageSize |-> 256, fuseWithBootloaderSize |-> highFuse, timedWrites |-> 0],
    [sig |-> <<30, 151, 4>>, desc |-> "ATmega1281", flashSize |-> 128 * kb, baseBootSize |-> 1 * kb, pageSize |-> 256, fuseWithBootloaderSize |-> highFuse, timedWrites |-> 0],
    [sig |-> <<30, 152, 1>>, desc |-> "ATmega2560", flashSize |-> 256 * kb, baseBootSize |-> 1 * kb, pageSize |-> 256, fuseWithBootloaderSize |-> highFuse, timedWrites |-> 0],
    [sig |-> <<30, 152, 2>>, desc |-> "ATmega2561", flashSize |-> 256 * kb, baseBootSize |-> 1 * kb, pageSize |-> 256, fuseWithBootloaderSize |-> highFuse, timedWrites |-> 0],
    [sig |-> <<30, 147, 130>>, desc |-> "At90USB82", flashSize |-> 8 * kb, baseBootSize |-> 512, pageSize |-> 128, fuseWithBootloaderSize |-> highFuse, timedWrites |-> 0],
    [sig |-> <<30, 148, 130>>, desc |-> "At90USB162", flashSize |-> 16 * kb, baseBootSize |-> 512, pageSize |-> 128, fuseWithBootloaderSize |-> highFuse, timedWrites |-> 0],
    [sig |-> <<30, 147, 137>>, desc |-> "ATmega8U2", flashSize |-> 8 * kb, baseBootSize |-> 512, pageSize |-> 128, fuseWithBootloaderSize |-> highFuse, timedWrites |-> 0],
    [sig |-> <<30, 148, 137>>, desc |-> "ATmega16U2", flashSize |-> 16 * kb, baseBootSize |-> 512, pageSize |-> 128, fuseWithBootloaderSize |-> highFuse, timedWrites |-> 0],
    [sig |-> <<30, 149, 138>>, desc |-> "ATmega32U2", flashSize |-> 32 * kb, baseBootSize |-> 512, pageSize |-> 128, fuseWithBootloaderSize |-> highFuse, timedWrites |-> 0],
    [sig |-> <<30, 148, 136>>, desc |-> "ATmega16U4", flashSize |-> 16 * kb, baseBootSize |-> 512, pageSize |-> 128, fuseWithBootloaderSize |-> highFuse, timedWrites |-> 0],
    [sig |-> <<30, 149, 135>>, desc |-> "ATmega32U4", flashSize |-> 32 * kb, baseBootSize |-> 512, pageSize |-> 128, fuseWithBootloaderSize |-> highFuse, timedWrites |-> 0],
    [sig |-> <<30, 151, 5>>, desc |-> "ATmega1284P", flashSize |-> 128 * kb, baseBootSize |-> 1 * kb, pageSize |-> 256, fuseWithBootloaderSize |-> highFuse, timedWrites |-> 0],
    [sig |-> <<30, 145, 10>>, desc |-> "ATtiny2313A", flashSize |-> 2 * kb, baseBootSize |-> 0, pageSize |-> 32, fuseWithBootloaderSize |-> NO_FUSE, timedWrites |-> 0],
    [sig |-> <<30, 146, 13>>, desc |-> "ATtiny4313", flashSize |-> 4 * kb, baseBootSize |-> 0, pageSize |-> 64, fuseWithBootloaderSize |-> NO_FUSE, timedWrites |-> 0],
    [sig |-> <<30, 144, 7>>, desc |-> "ATtiny13A", flashSize |-> 1 * kb, baseBootSize |-> 0, pageSize |-> 32, fuseWithBootloaderSize |-> NO_FUSE, timedWrites |-> 0],
    [sig |-> <<30, 147, 7>>, desc |-> "ATmega8A", flashSize |-> 8 * kb, baseBootSize |-> 256, pageSize |-> 64, fuseWithBootloaderSize |-> highFuse, timedWrites |-> 1]
  >>

deviceDatabase == <<
    [md5sum |-> <<10, 172, 247, 22, 244, 60, 162, 201, 39, 126, 8, 185, 214, 144, 188, 2>>, filename |-> "ATmegaBOOT_168_atmega328"],
    [md5sum |-> <<39, 235, 135, 20, 93, 69, 212, 216, 65, 68, 82, 206, 10, 43, 140, 95>>, filename |-> "ATmegaBOOT_168_atmega328_pro_8MHz"],
    [md5sum |-> <<1, 36, 19, 86, 96, 77, 145, 126, 220, 238, 132, 209, 25, 239, 145, 206>>, filename |-> "ATmegaBOOT_168_atmega1280"],
    [md5sum |-> <<20, 97, 206, 223, 133, 70, 13, 150, 204, 65, 203, 1, 105, 64, 40, 26>>, filename |-> "ATmegaBOOT_168_diecimila"],
    [md5sum |-> <<106, 34, 159, 180, 100, 55, 63, 163, 12, 104, 57, 29, 106, 151, 44, 64>>, filename |-> "ATmegaBOOT_168_ng"],
    [md5sum |-> <<255, 153, 162, 192, 217, 201, 229, 27, 152, 125, 158, 86, 18, 194, 164, 161>>, filename |-> "ATmegaBOOT_168_pro_8MHz"],
    [md5sum |-> <<152, 109, 207, 187, 85, 225, 34, 30, 228, 60, 194, 7, 178, 43, 70, 174>>, filename |-> "ATmegaBOOT"],
    [md5sum |-> <<55, 192, 252, 144, 226, 160, 93, 143, 98, 235, 174, 156, 54, 194, 36, 5>>, filename |-> "ATmegaBOOT_168"],
    [md5sum |-> <<41, 62, 179, 183, 57, 132, 45, 53, 186, 157, 2, 249, 199, 247, 201, 214>>, filename |-> "ATmegaBOOT_168_atmega328_bt"],
    [md5sum |-> <<252, 175, 5, 14, 180, 215, 45, 117, 143, 65, 140, 133, 131, 86, 170, 53>>, filename |-> "LilyPadBOOT_168"],
    [md5sum |-> <<85, 113, 161, 140, 129, 59, 158, 210, 230, 59, 201, 59, 154, 177, 121, 83>>, filename |-> "optiboot_atmega328_IDE_0022"],
    [md5sum |-> <<60, 8, 144, 161, 106, 19, 162, 240, 165, 29, 38, 236, 241, 75, 15, 179>>, filename |-> "optiboot_atmega328_pro_8MHz"],
    [md5sum |-> <<173, 189, 167, 74, 79, 171, 168, 101, 52, 146, 248, 201, 206, 88, 125, 120>>, filename |-> "optiboot_lilypad"],
    [md5sum |-> <<123, 92, 172, 8, 42, 11, 45, 69, 105, 17, 167, 160, 174, 101, 127, 102>>, filename |-> "optiboot_luminet"],
    [md5sum |-> <<106, 149, 10, 225, 219, 31, 157, 199, 140, 248, 164, 128, 181, 30, 84, 225>>, filename |-> "optiboot_pro_16MHz"],
    [md5sum |-> <<44, 85, 180, 184, 181, 197, 203, 196, 211, 54, 153, 203, 75, 159, 218, 190>>, filename |-> "optiboot_pro_20mhz"],
    [md5sum |-> <<30, 53, 20, 8, 31, 101, 127, 140, 150, 80, 105, 159, 25, 30, 61, 240>>, filename |-> "stk500boot_v2_mega2560"],
    [md5sum |-> <<194, 89, 113, 95, 150, 40, 227, 170, 176, 105, 226, 175, 240, 133, 161, 32>>, filename |-> "DiskLoader-Leonardo"],
    [md5sum |-> <<228, 175, 246, 107, 120, 218, 228, 48, 254, 182, 82, 175, 83, 82, 24, 73>>, filename |-> "optiboot_atmega8"],
    [md5sum |-> <<58, 137, 48, 75, 21, 245, 187, 17, 170, 230, 230, 220, 124, 245, 145, 53>>, filename |-> "optiboot_atmega168"],
    [md5sum |-> <<251, 244, 155, 123, 89, 115, 127, 101, 232, 208, 248, 165, 8, 18, 231, 159>>, filename |-> "optiboot_atmega328"],
    [md5sum |-> <<127, 223, 225, 178, 111, 82, 143, 189, 124, 254, 126, 224, 132, 192, 165, 107>>, filename |-> "optiboot_atmega328-Mini"],
    [md5sum |-> <<49, 40, 11, 6, 173, 181, 164, 201, 45, 239, 179, 105, 41, 34, 234, 191>>, filename |-> "ATmegaBOOT_324P"],
    [md5sum |-> <<232, 147, 68, 67, 55, 211, 40, 60, 125, 154, 235, 132, 70, 213, 69, 66>>, filename |-> "ATmegaBOOT_644"],
    [md5sum |-> <<81, 105, 16, 64, 143, 7, 129, 198, 72, 81, 84, 94, 150, 115, 194, 235>>, filename |-> "ATmegaBOOT_644P"],
    [md5sum |-> <<185, 73, 147, 9, 73, 26, 100, 110, 205, 88, 71, 137, 194, 216, 164, 108>>, filename |-> "Mega2560_Original"],
    [md5sum |-> <<113, 221, 194, 132, 100, 196, 115, 39, 210, 51, 1, 30, 250, 225, 36, 75>>, filename |-> "optiboot_atmega1284p"],
    [md5sum |-> <<15, 2, 49, 114, 149, 200, 247, 253, 27, 183, 7, 23, 133, 165, 102, 135>>, filename |-> "Ruggeduino"],
    [md5sum |-> <<83, 224, 44, 188, 135, 245, 11, 104, 44, 113, 19, 224, 237, 132, 5, 52>>, filename |-> "Leonardo-prod-firmware-2012-04-26"],
    [md5sum |-> <<18, 170, 128, 7, 77, 116, 227, 218, 191, 45, 37, 132, 109, 153, 247, 32>>, filename |-> "atmega2560_bootloader_watchdog_bug_fixed"],
    [md5sum |-> <<50, 86, 193, 211, 172, 120, 50, 77, 4, 109, 63, 109, 1, 236, 174, 9>>, filename |-> "Esplora"],
    [md5sum |-> <<57, 204, 128, 214, 222, 162, 196, 145, 111, 188, 232, 221, 112, 242, 162, 51>>, filename |-> "Sanguino_ATmegaBOOT_644P"],
    [md5sum |-> <<96, 73, 198, 10, 230, 49, 92, 193, 186, 215, 36, 239, 139, 109, 230, 208>>, filename |-> "Sanguino_ATmegaBOOT_168_atmega644p"],
    [md5sum |-> <<193, 23, 227, 94, 156, 67, 102, 95, 30, 76, 65, 149, 68, 96, 71, 213>>, filename |-> "Sanguino_ATmegaBOOT_168_atmega1284p"],
    [md5sum |-> <<39, 75, 104, 138, 138, 162, 76, 231, 48, 127, 151, 55, 135, 22, 78, 33>>, filename |-> "Sanguino_ATmegaBOOT_168_atmega1284p_8m"],
    [md5sum |-> <<216, 140, 112, 109, 254, 31, 220, 56, 130, 30, 206, 174, 35, 178, 230, 231>>, filename |-> "Arduino-dfu-usbserial-atmega16u2-Uno-Rev3"]
  >>

\* NUMITEMS (signatures), NUMITEMS (deviceDatabase)
NUMITEMS(arg) == Len(arg)

\* the zero-initialised global currentSignature before getSignature runs
ZeroSignature ==
    [sig |-> <<0, 0, 0>>, desc |-> "", flashSize |-> 0, baseBootSize |-> 0,
     pageSize |-> 0, fuseWithBootloaderSize |-> 0, timedWrites |-> 0]

VARIABLES
    pc,               \* position of setup () in the run
    timeout,          \* startProgramming: unsigned int timeout
    attempts,         \* number of programming-enable commands sent so far
    acknowledged,     \* some enable attempt got programAcknowledge back
    foundSig,         \* global int foundSig
    lastAddressMSB,   \* global byte lastAddressMSB
    currentSignature, \* global signatureType currentSignature
    addr, len, i,     \* locals of readBootloader / readProgram
    hFuse, whichFuse, \* locals of readBootloader
    allFF, mem,       \* locals of the digest pass
    ctx, md5sum,      \* md5_context ctx, byte md5sum [16]
    target,           \* the chip on the other end of the SPI link (fixed)
    tgtExt,           \* the extended address byte held by the chip
    sent,             \* the 4-byte commands sent by the latest step
    transfers,        \* number of SPI.transfer calls so far
    nLoadExt,         \* number of load-extended-address commands so far
    nFlashRead,       \* number of flash-read commands so far
    events,           \* what was reported on Serial, in order
    stages            \* the stages of the run, in the order they started

vars == <<pc, timeout, attempts, acknowledged, foundSig, lastAddressMSB,
          currentSignature, addr, len, i, hFuse, whichFuse, allFF, mem,
          ctx, md5sum, target, tgtExt, sent, transfers, nLoadExt,
          nFlashRead, events, stages>>

(***************************************************************************)
(* The target chip                                                         *)
(***************************************************************************)
\* contents of the chip's flash, by kind of image and linear byte address
FlashByte(kind, a) ==
    CASE kind = "blank" -> 255
      [] kind = "code"  -> (a * 7 + 12) % 251
      [] OTHER          -> IF a % 16 = 15 THEN (a \div 16) % 255 ELSE 255

\* third response byte of a programming-enable command
TargetConfirm(tgt, n) ==
    IF n >= tgt.syncAfter THEN programAcknowledge ELSE 0

\* fourth response byte of a read command, ext being the chip's extended byte
TargetReply(cmd, ext, tgt) ==
    CASE cmd[1] = readSignatureByte -> tgt.sig[cmd[3] + 1]
      [] cmd[1] = readCalibrationByte -> tgt.fuses.cal
      [] cmd[1] = readLowFuseByte /\ cmd[2] = readLowFuseByteArg2 -> tgt.fuses.low
      [] cmd[1] = readExtendedFuseByte /\ cmd[2] = readExtendedFuseByteArg2 -> tgt.fuses.ext
      [] cmd[1] = readHighFuseByte /\ cmd[2] = readHighFuseByteArg2 -> tgt.fuses.high
      [] cmd[1] = readLockByte /\ cmd[2] = readLockByteArg2 -> tgt.fuses.lock
      [] cmd[1] \in {readProgramMemory, readProgramMemory + 8} ->
            FlashByte(tgt.flash.kind,
                      (ext * UINT + cmd[2] * BYTE + cmd[3]) * 2
                        + (IF cmd[1] = readProgramMemory THEN 0 ELSE 1))
      [] OTHER -> 0

\* the chip's extended address byte after it received the commands cmds
RECURSIVE ExtAfter(_, _)
ExtAfter(cmds, ext) ==
    IF cmds = <<>> THEN ext
    ELSE ExtAfter(Tail(cmds),
                  IF Head(cmds)[1] = loadExtendedAddressByte
                  THEN Head(cmds)[3] ELSE ext)

IsLoadExt(cmd) == cmd[1] = loadExtendedAddressByte

CountLoadExt(cmds) == Cardinality({k \in DOMAIN cmds : IsLoadExt(cmds[k])})

IsFlashRead(cmd) == cmd[1] \in {readProgramMemory, readProgramMemory + 8}

CountFlashRead(cmds) == Cardinality({k \in DOMAIN cmds : IsFlashRead(cmds[k])})

(***************************************************************************)
(* program (): four SPI transfers per command                              *)
(***************************************************************************)
TransfersPerCommand == 4

\* the commands cmds go out on the link, in order
Send(cmds) ==
    /\ sent' = cmds
    /\ transfers' = transfers + TransfersPerCommand * Len(cmds)
    /\ nLoadExt' = nLoadExt + CountLoadExt(cmds)
    /\ nFlashRead' = nFlashRead + CountFlashRead(cmds)
    /\ tgtExt' = ExtAfter(cmds, tgtExt)

Report(evs) == events' = events \o evs

Ev(name, val) == [ev |-> name, val |-> val]

(***************************************************************************)
(* readFlash                                                               *)
(***************************************************************************)
\* variant: the byte above the low byte, addr >> 8
MSBof_Page(a) == (a \div BYTE) % BYTE

\* byte MSB = (addr >> 16) & 0xFF
MSBof(a) == (a \div UINT) % BYTE

\* variant: the extended address byte is loaded before every read
NeedsLoad_Always(MSB, last) == TRUE

\* if (MSB != lastAddressMSB)
NeedsLoad(MSB, last) == MSB # last

\* variant: 0x4C, the write-page command, in place of 0x4D
LoadExtCmd_WritePage(MSB) == <<76, 0, MSB, 0>>

LoadExtCmd(MSB) == <<loadExtendedAddressByte, 0, MSB, 0>>

\* variant: lowByte and highByte of the word address exchanged
FlashReadCmd_Swapped(a) ==
    LET high == IF a % 2 = 1 THEN 8 ELSE 0
        word == a \div 2
    IN  <<readProgramMemory + high, word % BYTE, (word \div BYTE) % BYTE, 0>>

\* program (readProgramMemory | high, highByte (addr), lowByte (addr))
FlashReadCmd(a) ==
    LET high == IF a % 2 = 1 THEN 8 ELSE 0
        word == a \div 2
    IN  <<readProgramMemory + high, (word \div BYTE) % BYTE, word % BYTE, 0>>

readFlashCmds(a, last) ==
    IF NeedsLoad(MSBof(a), last)
    THEN <<LoadExtCmd(MSBof(a)), FlashReadCmd(a)>>
    ELSE <<FlashReadCmd(a)>>

readFlashMSB(a, last) ==
    IF NeedsLoad(MSBof(a), last) THEN MSBof(a) ELSE last

\* one call of readFlash (a); its result goes to mem
readFlash(a) ==
    /\ Send(readFlashCmds(a, lastAddressMSB))
    /\ lastAddressMSB' = readFlashMSB(a, lastAddressMSB)
    /\ mem' = TargetReply(FlashReadCmd(a),
                          ExtAfter(readFlashCmds(a, lastAddressMSB), tgtExt),
                          target)

(***************************************************************************)
(* Initial states                                                          *)
(***************************************************************************)
Fuses(l, h, e) == [low |-> l, high |-> h, ext |-> e, lock |-> 207, cal |-> 154]

InitOver(sigs, fuses, syncs, exts, flashes) ==
    /\ pc = "startProgramming"
    /\ timeout = 0
    /\ attempts = 0
    /\ acknowledged = FALSE
    /\ foundSig = -1
    /\ lastAddressMSB = 0
    /\ currentSignature = ZeroSignature
    /\ addr = 0 /\ len = 0 /\ i = 0
    /\ hFuse = 0 /\ whichFuse = 0
    /\ allFF = FALSE /\ mem = 0
    /\ ctx = [n |-> 0, ff |-> 0, h |-> 0]
    /\ md5sum = <<>>
    /\ target \in [sig : sigs, fuses : fuses, syncAfter : syncs, flash : flashes]
    /\ tgtExt \in exts
    /\ sent = <<>>
    /\ transfers = 0
    /\ nLoadExt = 0
    /\ nFlashRead = 0
    /\ events = <<>>
    /\ stages = <<>>

(***************************************************************************)
(* startProgramming                                                        *)
(***************************************************************************)
EnableCmd == <<progamEnable, programAcknowledge, 0, 0>>

\* variant: the do ... while loop without the count of attempts
TooManyAttempts_Never(t) == FALSE

\* if (timeout++ >= ENTER_PROGRAMMING_ATTEMPTS)
TooManyAttempts(t) == t >= ENTER_PROGRAMMING_ATTEMPTS

\* variant: the result of startProgramming () is not tested
AfterStartProgramming_Ignore(ok) == "getSignature"

\* setup (), line 592: if (startProgramming ()) ... else the end of setup ()
AfterStartProgramming(ok) == IF ok THEN "getSignature" ELSE "done"

\* lines 486-494: set up SPI and the pins, timeout = 0
StartProgramming ==
    /\ pc = "startProgramming"
    /\ pc' = "enterLoop"
    /\ timeout' = 0
    /\ Report(<<Ev("Attempting to enter programming mode ...", 0)>>)
    /\ stages' = Append(stages, "enable")
    /\ UNCHANGED <<attempts, acknowledged, foundSig, lastAddressMSB,
                   currentSignature, addr, len, i, hFuse, whichFuse, allFF,
                   mem, ctx, md5sum, target, tgtExt, sent, transfers, nLoadExt,
                   nFlashRead>>

\* lines 497-527: one pass of the do ... while loop, and what follows it
EnableAttempt ==
    /\ pc = "enterLoop"
    /\ LET confirm == TargetConfirm(target, attempts)
       IN  /\ Send(<<EnableCmd>>)
           /\ attempts' = attempts + 1
           /\ acknowledged' = (acknowledged \/ confirm = programAcknowledge)
           /\ IF confirm # programAcknowledge
              THEN /\ timeout' = (timeout + 1) % UINT
                   /\ IF TooManyAttempts(timeout)
                      THEN /\ Report(<<Ev(".", 0),
                                       Ev("Failed to enter programming mode. Double-check wiring!", 0)>>)
                           /\ pc' = AfterStartProgramming(FALSE)
                      ELSE /\ Report(<<Ev(".", 0)>>)
                           /\ pc' = "enterLoop"
              ELSE /\ timeout' = timeout
                   /\ Report(<<Ev("Entered programming mode OK.", 0)>>)
                   /\ pc' = AfterStartProgramming(TRUE)
    /\ UNCHANGED <<foundSig, lastAddressMSB, currentSignature, addr, len, i,
                   hFuse, whichFuse, allFF, mem, ctx, md5sum, target, stages>>

(***************************************************************************)
(* getSignature                                                            *)
(***************************************************************************)
SignatureCmds == [k \in 1..3 |-> <<readSignatureByte, 0, k - 1, 0>>]

\* variant: only the first two signature bytes are compared
SigMatches_TwoBytes(sig, entry) ==
    sig[1] = entry.sig[1] /\ sig[2] = entry.sig[2]

\* memcmp (sig, currentSignature.sig, sizeof sig) == 0
SigMatches(sig, entry) == sig = entry.sig

\* lines 541-555: the scan from entry j on, cur being currentSignature
RECURSIVE scanSignatures(_, _, _)
scanSignatures(sig, j, cur) ==
    IF j >= NUMITEMS(signatures)
    THEN [foundSig |-> -1, currentSignature |-> cur]
    ELSE IF SigMatches(sig, signatures[j + 1])
         THEN [foundSig |-> j, currentSignature |-> signatures[j + 1]]
         ELSE scanSignatures(sig, j + 1, signatures[j + 1])

\* lines 529-558
GetSignature ==
    /\ pc = "getSignature"
    /\ LET sig  == [k \in 1..3 |-> TargetReply(SignatureCmds[k], tgtExt, target)]
           scan == scanSignatures(sig, 0, currentSignature)
       IN  /\ Send(SignatureCmds)
           /\ foundSig' = scan.foundSig
           /\ currentSignature' = scan.currentSignature
           /\ IF scan.foundSig # -1
              THEN Report(<<Ev("Signature = ", sig),
                            Ev("Processor = ", scan.currentSignature.desc),
                            Ev("Flash memory size = ", scan.currentSignature.flashSize)>>)
              ELSE Report(<<Ev("Signature = ", sig),
                            Ev("Unrecogized signature.", 0)>>)
    /\ pc' = "getFuseBytes"
    /\ stages' = Append(stages, "signature")
    /\ UNCHANGED <<timeout, attempts, acknowledged, lastAddressMSB, addr, len,
                   i, hFuse, whichFuse, allFF, mem, ctx, md5sum, target>>

(***************************************************************************)
(* getFuseBytes                                                            *)
(***************************************************************************)
LowFuseCmd == <<readLowFuseByte, readLowFuseByteArg2, 0, 0>>
HighFuseCmd == <<readHighFuseByte, readHighFuseByteArg2, 0, 0>>
ExtFuseCmd == <<readExtendedFuseByte, readExtendedFuseByteArg2, 0, 0>>
LockCmd == <<readLockByte, readLockByteArg2, 0, 0>>
CalibrationCmd == <<readCalibrationByte, 0, 0, 0>>

\* variant: the calibration byte is printed without being read
FuseBytesCmds_NoCalibration == <<LowFuseCmd, HighFuseCmd, ExtFuseCmd, LockCmd>>

FuseBytesCmds == <<LowFuseCmd, HighFuseCmd, ExtFuseCmd, LockCmd, CalibrationCmd>>

\* variant: readBootloader () is called whatever foundSig is
AfterGetFuseBytes_Always(found) == "readBootloader"

\* setup (), lines 597-602: if (foundSig != -1) readBootloader ();
AfterGetFuseBytes(found) == IF found # -1 THEN "readBootloader" ELSE "readProgram"

\* lines 560-572
GetFuseBytes ==
    /\ pc = "getFuseBytes"
    /\ Send(FuseBytesCmds)
    /\ Report(<<Ev("LFuse = ", TargetReply(LowFuseCmd, tgtExt, target)),
                Ev("HFuse = ", TargetReply(HighFuseCmd, tgtExt, target)),
                Ev("EFuse = ", TargetReply(ExtFuseCmd, tgtExt, target)),
                Ev("Lock byte = ", TargetReply(LockCmd, tgtExt, target)),
                Ev("Clock calibration = ", TargetReply(CalibrationCmd, tgtExt, target))>>)
    /\ pc' = AfterGetFuseBytes(foundSig)
    /\ stages' = Append(stages, "fuses")
    /\ UNCHANGED <<timeout, attempts, acknowledged, foundSig, lastAddressMSB,
                   currentSignature, addr, len, i, hFuse, whichFuse, allFF,
                   mem, ctx, md5sum, target>>

(***************************************************************************)
(* readBootloader                                                          *)
(***************************************************************************)
\* variant: the switch has no case for extFuse
SelectsFuse_NoExt(fusenumber) == fusenumber \in {lowFuse, highFuse}

\* the cases of switch (fusenumber), line 344
SelectsFuse(fusenumber) == fusenumber \in {lowFuse, highFuse, extFuse}

WhichFuseCmd(fusenumber) ==
    CASE fusenumber = lowFuse  -> LowFuseCmd
      [] fusenumber = highFuse -> HighFuseCmd
      [] fusenumber = extFuse  -> ExtFuseCmd

\* variant: the wrong bit of the fuse is tested
BootloaderInUse_Bit1(fuse) == (fuse \div 2) % 2 = 0

\* (whichFuse & bit (0)) == 0
BootloaderInUse(fuse) == fuse % 2 = 0

\* (hFuse & bit (3)) == 0
EepromPreserved(fuse) == (fuse \div 8) % 2 = 0

\* (hFuse & bit (4)) == 0
WatchdogAlwaysOn(fuse) == (fuse \div 16) % 2 = 0

\* showYesNo
showYesNo(b) == IF b THEN "Yes" ELSE "No"

\* variant: the multipliers in ascending instead of descending order
BootMultiplier_Ascending(fuse) ==
    CASE (fuse \div 2) % 4 = 0 -> 1
      [] (fuse \div 2) % 4 = 1 -> 2
      [] (fuse \div 2) % 4 = 2 -> 4
      [] (fuse \div 2) % 4 = 3 -> 8

\* variant: every multiplier doubled, sizes taken for words
BootMultiplier_Doubled(fuse) ==
    CASE (fuse \div 2) % 4 = 0 -> 16
      [] (fuse \div 2) % 4 = 1 -> 8
      [] (fuse \div 2) % 4 = 2 -> 4
      [] (fuse \div 2) % 4 = 3 -> 2

\* switch ((whichFuse >> 1) & 3), lines 376-382
BootMultiplier(fuse) ==
    CASE (fuse \div 2) % 4 = 0 -> 8
      [] (fuse \div 2) % 4 = 1 -> 4
      [] (fuse \div 2) % 4 = 2 -> 2
      [] (fuse \div 2) % 4 = 3 -> 1

\* len = baseBootSize; len *= multiplier  (unsigned int, 16 bits)
BootLen(base, fuse) == (base * BootMultiplier(fuse)) % UINT

\* addr = flashSize; addr -= len  (unsigned long; a negative result stands
\* for the wrapped value 2^32 - (len - flashSize))
BootStart(flashSize, l) == flashSize - l

\* lines 334-393: up to the start of the hex dump
ReadBootloaderStart ==
    /\ pc = "readBootloader"
    /\ IF currentSignature.baseBootSize = 0
       THEN /\ Send(<<>>)
            /\ Report(<<Ev("No bootloader support.", 0)>>)
            /\ pc' = "readProgram"
            /\ stages' = stages
            /\ UNCHANGED <<addr, len, i, hFuse, whichFuse>>
       ELSE LET fusenumber == currentSignature.fuseWithBootloaderSize
                h == TargetReply(HighFuseCmd, tgtExt, target)
            IN  IF ~SelectsFuse(fusenumber)
                THEN /\ Send(<<HighFuseCmd>>)
                     /\ hFuse' = h
                     /\ Report(<<Ev("No bootloader fuse.", 0)>>)
                     /\ pc' = "readProgram"
                     /\ stages' = stages
                     /\ UNCHANGED <<addr, len, i, whichFuse>>
                ELSE LET w == TargetReply(WhichFuseCmd(fusenumber), tgtExt, target)
                         l == BootLen(currentSignature.baseBootSize, w)
                         a == BootStart(currentSignature.flashSize, l)
                     IN  /\ Send(<<HighFuseCmd, WhichFuseCmd(fusenumber)>>)
                         /\ hFuse' = h
                         /\ whichFuse' = w
                         /\ len' = l
                         /\ addr' = a
                         /\ i' = 0
                         /\ Report(<<Ev("Bootloader in use: ", showYesNo(BootloaderInUse(w))),
                                     Ev("EEPROM preserved through erase: ", showYesNo(EepromPreserved(h))),
                                     Ev("Watchdog timer always on: ", showYesNo(WatchdogAlwaysOn(h))),
                                     Ev("Bootloader is ", l),
                                     Ev(" bytes starting at ", a),
                                     Ev("Bootloader:", 0)>>)
                         /\ pc' = "hexDump"
                         /\ stages' = Append(stages, "fuseDecode")
    /\ UNCHANGED <<timeout, attempts, acknowledged, foundSig, lastAddressMSB,
                   currentSignature, allFF, mem, ctx, md5sum, target>>

\* lines 395-407: one pass of the hex dump loop
HexDumpStep ==
    /\ pc = "hexDump"
    /\ i < len
    /\ readFlash(addr + i)
    /\ i' = i + 1
    /\ stages' = IF i = 0 THEN Append(stages, "regionScan") ELSE stages
    /\ UNCHANGED <<pc, timeout, attempts, acknowledged, foundSig,
                   currentSignature, addr, len, hFuse, whichFuse, allFF, ctx,
                   md5sum, target, events>>

\* md5_starts
md5_starts == [n |-> 0, ff |-> 0, h |-> 0]

\* md5_update (&ctx, &mem, 1): the context has taken one more byte; n is the
\* number of bytes taken, ff the number of them that are 0xFF
md5_update(c, b) ==
    [n  |-> c.n + 1,
     ff |-> c.ff + (IF b = 255 THEN 1 ELSE 0),
     h  |-> (c.h * 257 + b + 1) % 65521]

\* md5_finish: the digest of the bytes of the chip's bootloader region
md5_finish(c, tgt) == tgt.flash.md5

\* lines 409-417: the hex dump loop ends, the digest pass is set up
HexDumpEnd ==
    /\ pc = "hexDump"
    /\ ~(i < len)
    /\ Send(<<>>)
    /\ allFF' = TRUE
    /\ ctx' = md5_starts
    /\ pc' = "digest"
    /\ stages' = Append(stages, "digest")
    /\ UNCHANGED <<timeout, attempts, acknowledged, foundSig, lastAddressMSB,
                   currentSignature, addr, len, i, hFuse, whichFuse, mem,
                   md5sum, target, events>>

\* variant: while (--len), the test made after the decrement
DigestMore_PreDecrement(l) == l > 1

\* while (len--): the test of the value before the decrement
DigestMore(l) == l # 0

\* variant: allFF = (mem == 0xFF), the last byte decides
AllFFAfter_LastByte(ff, m) == m = 255

\* if (mem != 0xFF) allFF = false;
AllFFAfter(ff, m) == IF m # 255 THEN FALSE ELSE ff

\* lines 419-425: one pass of while (len--)
DigestStep ==
    /\ pc = "digest"
    /\ DigestMore(len)
    /\ len' = len - 1
    /\ readFlash(addr)
    /\ addr' = addr + 1
    /\ allFF' = AllFFAfter(allFF, mem')
    /\ ctx' = md5_update(ctx, mem')
    /\ UNCHANGED <<pc, timeout, attempts, acknowledged, foundSig,
                   currentSignature, i, hFuse, whichFuse, md5sum, target,
                   events, stages>>

\* variant: only the first byte of the digest is compared
Md5Matches_FirstByte(entry, sum) == entry.md5sum[1] = sum[1]

\* memcmp (dbEntry.md5sum, md5sum, sizeof md5sum) == 0
Md5Matches(entry, sum) == entry.md5sum = sum

\* variant: found starts as true, a digest in no entry is taken for entry 0
findDigest_NoMiss(sum, k) ==
    IF \E e \in DOMAIN deviceDatabase : deviceDatabase[e].md5sum = sum
    THEN (CHOOSE e \in DOMAIN deviceDatabase :
             /\ deviceDatabase[e].md5sum = sum
             /\ \A f \in 1..(e - 1) : deviceDatabase[f].md5sum # sum) - 1
    ELSE 0

\* lines 438-450: index of the first database entry with this digest, or -1
RECURSIVE findDigest(_, _)
findDigest(sum, k) ==
    IF k >= NUMITEMS(deviceDatabase) THEN -1
    ELSE IF Md5Matches(deviceDatabase[k + 1], sum) THEN k
         ELSE findDigest(sum, k + 1)

\* lines 419-454: while (len--) ends, the digest is finished and looked up
DigestEnd ==
    /\ pc = "digest"
    /\ ~DigestMore(len)
    /\ len' = (len - 1) % UINT
    /\ Send(<<>>)
    /\ LET sum == md5_finish(ctx, target)
           k   == findDigest(sum, 0)
       IN  /\ md5sum' = sum
           /\ IF allFF
              THEN /\ Report(<<Ev("MD5 sum of bootloader = ", sum),
                               Ev("No bootloader (all 0xFF)", 0)>>)
                   /\ stages' = stages
              ELSE /\ Report(<<Ev("MD5 sum of bootloader = ", sum),
                               IF k # -1
                               THEN Ev("Bootloader name: ", deviceDatabase[k + 1].filename)
                               ELSE Ev("Bootloader MD5 sum not known.", 0)>>)
                   /\ stages' = Append(stages, "digestLookup")
    /\ pc' = "readProgram"
    /\ UNCHANGED <<timeout, attempts, acknowledged, foundSig, lastAddressMSB,
                   currentSignature, addr, i, hFuse, whichFuse, allFF, mem,
                   ctx, target>>

(***************************************************************************)
(* readProgram                                                             *)
(***************************************************************************)
ProgramDumpLen == 256

\* lines 460-464
ReadProgramStart ==
    /\ pc = "readProgram"
    /\ addr' = 0
    /\ len' = ProgramDumpLen
    /\ i' = 0
    /\ Send(<<>>)
    /\ Report(<<Ev("First 256 bytes of program memory:", 0)>>)
    /\ pc' = "programDump"
    /\ stages' = Append(stages, "programDump")
    /\ UNCHANGED <<timeout, attempts, acknowledged, foundSig, lastAddressMSB,
                   currentSignature, hFuse, whichFuse, allFF, mem, ctx,
                   md5sum, target>>

\* lines 466-478: one pass of the dump loop
ReadProgramStep ==
    /\ pc = "programDump"
    /\ i < len
    /\ readFlash(addr + i)
    /\ i' = i + 1
    /\ UNCHANGED <<pc, timeout, attempts, acknowledged, foundSig,
                   currentSignature, addr, len, hFuse, whichFuse, allFF, ctx,
                   md5sum, target, events, stages>>

\* variant: the detection is run again, as if called from loop ()
AfterReadProgram_Again == "getSignature"

\* setup (), lines 602-605: readProgram () is the last call; loop () is empty
AfterReadProgram == "done"

\* lines 480-482
ReadProgramEnd ==
    /\ pc = "programDump"
    /\ ~(i < len)
    /\ Send(<<>>)
    /\ pc' = AfterReadProgram
    /\ UNCHANGED <<timeout, attempts, acknowledged, foundSig, lastAddressMSB,
                   currentSignature, addr, len, i, hFuse, whichFuse, allFF,
                   mem, ctx, md5sum, target, events, stages>>

(***************************************************************************)
(* The detection run                                                       *)
(***************************************************************************)
\* the signature of table entry j (0-based, as foundSig)
SigOf(j) == signatures[j + 1].sig

TableSigs == {signatures[k].sig : k \in DOMAIN signatures}

UnknownSig == <<30, 149, 1>>

Md5Of(k) == deviceDatabase[k + 1].md5sum

UnknownMd5 == [k \in 1..16 |-> 0]

Next ==
    \/ StartProgramming
    \/ EnableAttempt
    \/ GetSignature
    \/ GetFuseBytes
    \/ ReadBootloaderStart
    \/ HexDumpStep
    \/ HexDumpEnd
    \/ DigestStep
    \/ DigestEnd
    \/ ReadProgramStart
    \/ ReadProgramStep
    \/ ReadProgramEnd

\* chips of the run: no bootloader support, ext fuse, high fuse, 128 KB,
\* and a chip the table does not know
RunSigs == {SigOf(29), SigOf(7), SigOf(9), SigOf(15), UnknownSig}

RunFuses == {Fuses(255, h, e) : h \in {222, 216, 199}, e \in {253, 248}}

RunSyncs == {0, 50, 51}

RunExts == {0, 1}

RunFlashes == {[kind |-> "blank", md5 |-> UnknownMd5],
               [kind |-> "code", md5 |-> Md5Of(20)],
               [kind |-> "code", md5 |-> UnknownMd5]}

Init == InitOver(RunSigs, RunFuses, RunSyncs, RunExts, RunFlashes)

Spec == Init /\ [][Next]_vars

(***************************************************************************)
(* readFlash on its own: a session that has just entered programming mode  *)
(* at the first attempt, and calls of readFlash from there                 *)
(***************************************************************************)
InitSession(exts, flashes) ==
    /\ pc = "session"
    /\ timeout = 0
    /\ attempts = 1
    /\ acknowledged = TRUE
    /\ foundSig = -1
    /\ lastAddressMSB = 0
    /\ currentSignature = ZeroSignature
    /\ addr = 0 /\ len = 0 /\ i = 0
    /\ hFuse = 0 /\ whichFuse = 0
    /\ allFF = FALSE /\ mem = 0
    /\ ctx = [n |-> 0, ff |-> 0, h |-> 0]
    /\ md5sum = <<>>
    /\ target \in [sig : {UnknownSig}, fuses : {Fuses(255, 222, 253)},
                   syncAfter : {0}, flash : flashes]
    /\ tgtExt \in exts
    /\ sent = <<EnableCmd>>
    /\ transfers = TransfersPerCommand
    /\ nLoadExt = 0
    /\ nFlashRead = 0
    /\ events = <<Ev("Attempting to enter programming mode ...", 0),
                  Ev("Entered programming mode OK.", 0)>>
    /\ stages = <<"enable">>

\* the last address of the ascending sweep: 0x10000
SeqLast == UINT

\* readFlash (addr++), addresses in ascending order from 0
ReadFlashNext ==
    /\ pc = "session"
    /\ addr <= SeqLast
    /\ readFlash(addr)
    /\ addr' = addr + 1
    /\ UNCHANGED <<pc, timeout, attempts, acknowledged, foundSig,
                   currentSignature, len, i, hFuse, whichFuse, allFF, ctx,
                   md5sum, target, events, stages>>

InitSeq == InitSession(RunExts, {[kind |-> "code", md5 |-> UnknownMd5]})

SpecSeq == InitSeq /\ [][ReadFlashNext]_vars

\* number of readFlash calls of a session with reads in any order
MaxReads == 4

\* addresses on both sides of the 64K boundaries, and beyond 24 bits
AddrInputs == {0, 1, 65535, 65536, 65537, 131071, 131072, 196609, 262143,
               16777216, 16842753}

\* readFlash (a) for any address a; i counts the calls
ReadFlashAny ==
    /\ pc = "session"
    /\ i < MaxReads
    /\ \E a \in AddrInputs :
          /\ readFlash(a)
          /\ addr' = a
    /\ i' = i + 1
    /\ UNCHANGED <<pc, timeout, attempts, acknowledged, foundSig,
                   currentSignature, len, hFuse, whichFuse, allFF, ctx,
                   md5sum, target, events, stages>>

InitFlash == InitSession(RunExts, {[kind |-> "code", md5 |-> UnknownMd5]})

SpecFlash == InitFlash /\ [][ReadFlashAny]_vars

(***************************************************************************)
(* getSignature over the whole table and over signatures outside it        *)
(***************************************************************************)
OtherSigs == {<<a, b, c>> : a \in {0, 30, 255},
                            b \in {144, 145, 149, 152, 255},
                            c \in {1, 7, 11, 15, 130, 255}}

IdentifySigs == TableSigs \cup OtherSigs

InitIdentify ==
    InitOver(IdentifySigs, {Fuses(255, 222, 253)}, {0, 1}, {0},
             {[kind |-> "code", md5 |-> UnknownMd5]})

NextIdentify ==
    \/ StartProgramming
    \/ EnableAttempt
    \/ GetSignature

SpecIdentify == InitIdentify /\ [][NextIdentify]_vars

(***************************************************************************)
(* readBootloader up to the located region, over the whole table and       *)
(* every value of the high and of the extended fuse byte                   *)
(***************************************************************************)
LocateFuses ==
    {Fuses(255, h, 253) : h \in 0..255}
      \cup {Fuses(255, 222, e) : e \in 0..255}
      \cup {Fuses(l, 222, 253) : l \in {0, 98}}

InitLocate ==
    InitOver(TableSigs \cup {UnknownSig}, LocateFuses, {0}, {0},
             {[kind |-> "code", md5 |-> UnknownMd5]})

NextLocate ==
    \/ StartProgramming
    \/ EnableAttempt
    \/ GetSignature
    \/ GetFuseBytes
    \/ ReadBootloaderStart

SpecLocate == InitLocate /\ [][NextLocate]_vars

(***************************************************************************)
(* Whole runs on small chips, over every digest of the database and over   *)
(* blank, programmed and partly programmed flash                           *)
(***************************************************************************)
\* ATmega88PA (extended fuse, 256-byte base), ATtiny13A (no bootloader
\* support) and a chip the table does not know
DigestSigs == {SigOf(7), SigOf(29), UnknownSig}

DigestFuses == {Fuses(255, 222, 255), Fuses(255, 199, 253)}

DigestFlashes ==
    {[kind |-> "blank", md5 |-> UnknownMd5],
     [kind |-> "mixed", md5 |-> UnknownMd5],
     [kind |-> "code", md5 |-> UnknownMd5]}
      \cup {[kind |-> "code", md5 |-> Md5Of(k)] :
               k \in 0..(NUMITEMS(deviceDatabase) - 1)}

InitDigest ==
    InitOver(DigestSigs, DigestFuses, {0, 51}, RunExts, DigestFlashes)

SpecDigest == InitDigest /\ [][Next]_vars

(***************************************************************************)
(* Whole runs on every chip of the table, over every bootloader size the   *)
(* fuses can select, with the other fuse bits all programmed or all        *)
(* unprogrammed                                                            *)
(***************************************************************************)
SegmentFuses == {Fuses(255, f, f) : f \in {0, 2, 4, 6, 249, 251, 253, 255}}

InitSegment ==
    InitOver(TableSigs \cup {UnknownSig}, SegmentFuses, {0, 51}, {1},
             {[kind |-> "mixed", md5 |-> Md5Of(0)]})

SpecSegment == InitSegment /\ [][Next]_vars

(***************************************************************************)
(* Whole runs under every answer of the chip to the enable attempts: the   *)
(* chip acknowledges the attempt numbered syncAfter (0..50) or none (51).  *)
(* setup () is one thread that runs without waiting for input, so a step   *)
(* that can be taken is taken.                                             *)
(***************************************************************************)
EverySync == 0..(ENTER_PROGRAMMING_ATTEMPTS + 1)

InitTerminates ==
    \/ InitOver({SigOf(7), SigOf(29), UnknownSig},
                {Fuses(255, 222, 248), Fuses(255, 216, 253)}, EverySync, {0},
                {[kind |-> "mixed", md5 |-> Md5Of(0)]})
    \/ InitOver({SigOf(17)}, {Fuses(255, 216, 255)}, {0, 50, 51}, {0},
                {[kind |-> "code", md5 |-> UnknownMd5],
                 [kind |-> "blank", md5 |-> UnknownMd5]})

SpecTerminates == InitTerminates /\ [][Next]_vars /\ WF_vars(Next)

(***************************************************************************)
(* Properties                                                              *)
(***************************************************************************)
HasEvent(name) == \E k \in DOMAIN events : events[k].ev = name

EventVal(name) ==
    events[CHOOSE k \in DOMAIN events : events[k].ev = name].val

EntryFailed ==
    HasEvent("Failed to enter programming mode. Double-check wiring!")

\* C1: startProgramming never makes more than 50 programming-enable
\* attempts in one run, the first attempt included.
C1_AtMostFiftyAttempts == attempts <= 50

\* C2: once startProgramming has reported failure the run is over: every
\* transfer made was part of an enable attempt, no signature, fuse,
\* bootloader or program-memory event was reported, and lastAddressMSB,
\* foundSig and currentSignature still have their initial values.
C2_NothingAfterEntryTimeout ==
    EntryFailed =>
        /\ pc = "done"
        /\ transfers = 4 * attempts
        /\ \A k \in DOMAIN sent : sent[k] = <<172, 83, 0, 0>>
        /\ nFlashRead = 0 /\ nLoadExt = 0
        /\ stages = <<"enable">>
        /\ \A k \in DOMAIN events :
              events[k].ev \in {"Attempting to enter programming mode ...", ".",
                                "Failed to enter programming mode. Double-check wiring!"}
        /\ lastAddressMSB = 0
        /\ foundSig = -1
        /\ currentSignature = ZeroSignature

C2_Witness == EntryFailed /\ pc = "done" /\ attempts > 1

StageOrder ==
    <<"enable", "signature", "fuses", "fuseDecode", "regionScan", "digest",
      "digestLookup", "programDump">>

StageRank(s) == CHOOSE k \in DOMAIN StageOrder : StageOrder[k] = s

\* C3: the stages of a run start in the fixed order enable, signature,
\* fuses, fuse decode, region scan, digest, digest lookup, program dump,
\* each at most once, and a signature-read, fuse-read, calibration-read,
\* load-extended-address or flash-read command is only sent once an enable
\* attempt has been acknowledged with 0x53.
C3_StagesInOrderAfterAck ==
    /\ \A a, b \in DOMAIN stages :
          a < b => StageRank(stages[a]) < StageRank(stages[b])
    /\ (\E k \in DOMAIN sent : sent[k][1] \in {48, 56, 80, 88, 32, 40, 77})
          => acknowledged
    /\ (Len(stages) > 1 => acknowledged)

C3_Witness == pc = "done" /\ stages = StageOrder

\* C4: from a fresh session the ascending reads of 0x0000..0xFFFF issue
\* exactly one load-extended-address command, at the first read, and the
\* read of 0x10000 issues the second.
C4_OneLoadAtFirstRead ==
    (pc = "session" /\ nFlashRead >= 1) =>
        nLoadExt = (IF nFlashRead <= 65536 THEN 1 ELSE 2)

\* C5: a call readFlash (a) sends the load-extended-address command
\* (0x4D, 0, MSB, 0) before its flash read exactly when
\* MSB = (a >> 16) & 0xFF differs from lastAddressMSB, and then
\* lastAddressMSB becomes MSB; otherwise it sends the flash read alone and
\* lastAddressMSB stays.  No call sends more than one load command.
C5_LoadExactlyWhenMSBDiffers ==
    [][ (pc = "session" /\ i' = i + 1) =>
          LET MSB == (addr' \div 65536) % 256
          IN  /\ IF MSB # lastAddressMSB
                 THEN /\ Len(sent') = 2
                      /\ sent'[1] = <<77, 0, MSB, 0>>
                      /\ sent'[2][1] \in {32, 40}
                      /\ lastAddressMSB' = MSB
                 ELSE /\ Len(sent') = 1
                      /\ sent'[1][1] \in {32, 40}
                      /\ lastAddressMSB' = lastAddressMSB
              /\ nLoadExt' - nLoadExt <= 1 ]_vars

C5_Witness ==
    /\ pc = "session"
    /\ i >= 2
    /\ Len(sent) = 2
    /\ nLoadExt < nFlashRead

\* C6: after the first readFlash call of a run lastAddressMSB equals the
\* extended address byte the chip actually holds.
C6_CacheEqualsTargetByte == nFlashRead >= 1 => lastAddressMSB = tgtExt

SignatureRead == HasEvent("Signature = ")

\* C7: on a chip that returns the signature of table entry j getSignature
\* sets foundSig to j and currentSignature to that entry; on a chip whose
\* signature is in no entry foundSig stays -1 and "unrecognized" is reported.
C7_IdentifyRoundTrip ==
    SignatureRead =>
        /\ \A j \in 0..(Len(signatures) - 1) :
              target.sig = signatures[j + 1].sig =>
                  /\ foundSig = j
                  /\ currentSignature = signatures[j + 1]
                  /\ ~HasEvent("Unrecogized signature.")
        /\ (\A j \in 0..(Len(signatures) - 1) : target.sig # signatures[j + 1].sig)
              => /\ foundSig = -1
                 /\ HasEvent("Unrecogized signature.")

C7_Witness == SignatureRead /\ foundSig = 30 /\ pc = "getFuseBytes"

\* readBootloader has been called and has returned or reached its hex dump
BootloaderCalled ==
    /\ foundSig # -1
    /\ pc \notin {"startProgramming", "enterLoop", "getSignature",
                  "getFuseBytes", "readBootloader"}

Located == HasEvent("Bootloader is ")

\* the fuse byte of the chip that the descriptor selects
SelectedFuse ==
    CASE currentSignature.fuseWithBootloaderSize = 0 -> target.fuses.low
      [] currentSignature.fuseWithBootloaderSize = 1 -> target.fuses.high
      [] currentSignature.fuseWithBootloaderSize = 2 -> target.fuses.ext

\* C8: readBootloader returns without a region, and before any flash read,
\* if and only if baseBootSize is 0 or fuseWithBootloaderSize is none of
\* lowFuse, highFuse, extFuse; otherwise start address + length = flashSize.
C8_RegionEndsAtFlashEnd ==
    BootloaderCalled =>
        /\ (~Located) <=>
              (\/ currentSignature.baseBootSize = 0
               \/ currentSignature.fuseWithBootloaderSize \notin {0, 1, 2})
        /\ (~Located /\ pc = "readProgram") => nFlashRead = 0
        /\ Located =>
              /\ EventVal(" bytes starting at ") + EventVal("Bootloader is ")
                    = currentSignature.flashSize
              /\ (pc = "hexDump" /\ i = 0) =>
                    addr + len = currentSignature.flashSize

C8_Witness ==
    /\ Located
    /\ pc = "hexDump"
    /\ currentSignature.fuseWithBootloaderSize = 2
    /\ len = 2048

\* C9: the bootloader length is baseBootSize times 8, 4, 2, 1 for the values
\* 0, 1, 2, 3 of bits 1-2 of the selected fuse byte, whatever its other
\* bits; ATmega328P with high fuse 0xDE gives 512 bytes starting at 32256.
C9_LengthFromFuseBits ==
    Located =>
        /\ EventVal("Bootloader is ")
              = currentSignature.baseBootSize
                  * <<8, 4, 2, 1>>[((SelectedFuse \div 2) % 4) + 1]
        /\ (target.sig = <<30, 149, 15>> /\ target.fuses.high = 222) =>
              /\ EventVal("Bootloader is ") = 512
              /\ EventVal(" bytes starting at ") = 32256

C9_Witness ==
    /\ Located
    /\ target.sig = <<30, 149, 15>>
    /\ target.fuses.high = 222
    /\ len = 512 /\ addr = 32256

\* C10: "bootloader in use" is reported Yes exactly when bit 0 of the
\* selected fuse byte is 0, "EEPROM preserved" exactly when bit 3 of the
\* high fuse is 0, "watchdog always on" exactly when bit 4 of the high
\* fuse is 0.
C10_FlagsFromFuseBits ==
    Located =>
        /\ (EventVal("Bootloader in use: ") = "Yes") <=> (SelectedFuse % 2 = 0)
        /\ (EventVal("EEPROM preserved through erase: ") = "Yes")
              <=> ((target.fuses.high \div 8) % 2 = 0)
        /\ (EventVal("Watchdog timer always on: ") = "Yes")
              <=> ((target.fuses.high \div 16) % 2 = 0)

C10_Witness ==
    /\ Located
    /\ EventVal("Bootloader in use: ") = "No"
    /\ EventVal("EEPROM preserved through erase: ") = "Yes"
    /\ EventVal("Watchdog timer always on: ") = "No"

\* C11: the digest pass feeds the digest exactly length bytes: its k-th
\* read (k = 0, 1, ...) is of address startAddress + k, and the pass ends
\* only when length bytes have been fed, whatever their values.
C11_DigestFeedsWholeRegion ==
    [][ pc = "digest" =>
          LET L == EventVal("Bootloader is ")
              S == EventVal(" bytes starting at ")
              a == S + ctx.n
          IN  IF pc' = "digest"
              THEN /\ ctx.n < L
                   /\ ctx'.n = ctx.n + 1
                   /\ nFlashRead' = nFlashRead + 1
                   /\ sent'[Len(sent')]
                        = <<32 + 8 * (a % 2), ((a \div 2) \div 256) % 256,
                            (a \div 2) % 256, 0>>
                   /\ lastAddressMSB' = (a \div 65536) % 256
              ELSE ctx.n = L ]_vars

C11_Witness ==
    /\ pc = "readProgram"
    /\ ctx.n = 512
    /\ ctx.ff > 0
    /\ ~allFF

\* the digest pass is over and the digest has been printed
DigestDone == HasEvent("MD5 sum of bootloader = ")

\* C12: during and after the digest pass allFF is true exactly when every
\* byte fed so far was 0xFF (so it never turns true again after another
\* byte), and when it is true at the end the digest was fed exactly length
\* bytes, all of them 0xFF.
C12_AllFFIffEveryByteFF ==
    /\ (pc = "digest" \/ DigestDone) => (allFF <=> ctx.ff = ctx.n)
    /\ (DigestDone /\ allFF) =>
          /\ ctx.n = EventVal("Bootloader is ")
          /\ ctx.ff = EventVal("Bootloader is ")

C12_Witness ==
    /\ DigestDone
    /\ allFF
    /\ ctx.ff = 256
    /\ pc = "done"

\* how many of the three bootloader outcomes have been reported
OutcomesReported ==
    Cardinality({name \in {"No bootloader (all 0xFF)", "Bootloader name: ",
                           "Bootloader MD5 sum not known."} : HasEvent(name)})

\* C13: after the digest pass exactly one outcome is reported: "no
\* bootloader" if allFF, without a search of the database; otherwise the
\* name of the database entry whose md5sum is the computed digest, for
\* every entry of the database; otherwise "MD5 sum not known".
C13_OneOutcomeOfLookup ==
    DigestDone =>
        LET sum == EventVal("MD5 sum of bootloader = ")
        IN  /\ OutcomesReported = 1
            /\ allFF =>
                  /\ HasEvent("No bootloader (all 0xFF)")
                  /\ \A k \in DOMAIN stages : stages[k] # "digestLookup"
            /\ ~allFF =>
                  \A e \in 1..Len(deviceDatabase) :
                      deviceDatabase[e].md5sum = sum =>
                          /\ HasEvent("Bootloader name: ")
                          /\ EventVal("Bootloader name: ")
                                = deviceDatabase[e].filename
            /\ (~allFF /\ \A e \in 1..Len(deviceDatabase) :
                              deviceDatabase[e].md5sum # sum)
                  => HasEvent("Bootloader MD5 sum not known.")

C13_Witness ==
    /\ DigestDone
    /\ HasEvent("Bootloader name: ")
    /\ EventVal("Bootloader name: ") = "Sanguino_ATmegaBOOT_168_atmega1284p_8m"
    /\ pc = "done"

\* getFuseBytes has run
FusesRead == HasEvent("Clock calibration = ")

\* C14: in a run that entered programming mode and did not recognise the
\* signature, getFuseBytes reads and reports the low, high, extended, lock
\* and calibration bytes of the chip, and nothing of readBootloader
\* happens: no region is computed, no region byte is read, no digest is
\* made or looked up.
C14_UnknownChipStillGetsFuses ==
    (acknowledged /\ FusesRead /\ foundSig = -1) =>
        /\ EventVal("LFuse = ") = target.fuses.low
        /\ EventVal("HFuse = ") = target.fuses.high
        /\ EventVal("EFuse = ") = target.fuses.ext
        /\ EventVal("Lock byte = ") = target.fuses.lock
        /\ EventVal("Clock calibration = ") = target.fuses.cal
        /\ stages[Len(stages)] = "fuses" =>
              sent = << <<80, 0, 0, 0>>, <<88, 8, 0, 0>>, <<80, 8, 0, 0>>,
                        <<88, 0, 0, 0>>, <<56, 0, 0, 0>> >>
        /\ ~Located
        /\ ~DigestDone
        /\ OutcomesReported = 0
        /\ \A k \in DOMAIN stages :
              stages[k] \in {"enable", "signature", "fuses", "programDump"}
        /\ nFlashRead <= 256
        /\ pc \in {"readProgram", "programDump", "done"}

C14_Witness ==
    /\ acknowledged
    /\ foundSig = -1
    /\ pc = "done"
    /\ nFlashRead = 256
    /\ FusesRead

\* C15: every command sent to the chip is a 4-byte read-only command: its
\* first byte is 0x30, 0x38, 0x50, 0x58, 0x20, 0x28 or 0x4D, or it is the
\* programming-enable command 0xAC 0x53.
C15_OnlyReadCommands ==
    \A k \in DOMAIN sent :
        /\ Len(sent[k]) = 4
        /\ \/ sent[k][1] \in {48, 56, 80, 88, 32, 40, 77}
           \/ sent[k][1] = 172 /\ sent[k][2] = 83

C15_Witness ==
    /\ pc = "hexDump"
    /\ Len(sent) = 2
    /\ sent[1][1] = 77
    /\ sent[2][1] = 32
    /\ transfers > 40

FlagsReported ==
    /\ HasEvent("EEPROM preserved through erase: ")
    /\ HasEvent("Watchdog timer always on: ")

\* C16 as stated: the EEPROM-preserved and watchdog-always-on flags are
\* reported in every run that enters programming mode.
C16_FlagsInEveryRun == (pc = "done" /\ acknowledged) => FlagsReported

\* C16 as amended: a run that enters programming mode always reports the
\* raw fuse bytes, and it reports the two flags exactly when the signature
\* is recognised and its table entry has baseBootSize > 0 and selects
\* lowFuse, highFuse or extFuse.
C16_FlagsOnlyFromReadBootloader ==
    (pc = "done" /\ acknowledged) =>
        /\ HasEvent("HFuse = ")
        /\ HasEvent("EEPROM preserved through erase: ")
              <=> HasEvent("Watchdog timer always on: ")
        /\ FlagsReported <=>
              /\ foundSig # -1
              /\ signatures[foundSig + 1].baseBootSize > 0
              /\ signatures[foundSig + 1].fuseWithBootloaderSize \in {0, 1, 2}

C16_Witness ==
    /\ pc = "done"
    /\ foundSig = 7
    /\ FlagsReported
    /\ EventVal("Watchdog timer always on: ") = "Yes"

\* C17: at the end of a run every error condition has its status: a run
\* that never got the acknowledge reports the entry failure, a signature in
\* no table entry reports "unrecognized", and a region with a byte other
\* than 0xFF whose digest is in no database entry reports "MD5 sum not
\* known" after the computed digest.
C17_ErrorsAreReported ==
    pc = "done" =>
        /\ ~acknowledged => EntryFailed
        /\ (acknowledged /\ target.sig \notin TableSigs)
              => HasEvent("Unrecogized signature.")
        /\ (/\ DigestDone
            /\ ctx.ff < ctx.n
            /\ \A e \in 1..Len(deviceDatabase) :
                  deviceDatabase[e].md5sum # target.flash.md5)
              => /\ HasEvent("Bootloader MD5 sum not known.")
                 /\ EventVal("MD5 sum of bootloader = ") = target.flash.md5

C17_Witness ==
    /\ pc = "done"
    /\ HasEvent("Bootloader MD5 sum not known.")
    /\ ctx.ff > 0
    /\ ctx.ff < ctx.n

\* C18: the flash-read command of readFlash (a) is 0x20 for even a and 0x28
\* for odd a, then bits 8-15 and bits 0-7 of the word address a >> 1, then
\* 0; every command of the call takes four transfers, and the call returns
\* the chip's answer to that command.
C18_FlashReadCommand ==
    [][ (pc = "session" /\ i' = i + 1) =>
          LET a   == addr'
              w   == a \div 2
              cmd == sent'[Len(sent')]
          IN  /\ Len(cmd) = 4
              /\ cmd[1] = (IF a % 2 = 0 THEN 32 ELSE 40)
              /\ cmd[2] = (w \div 256) % 256
              /\ cmd[3] = w % 256
              /\ cmd[4] = 0
              /\ nFlashRead' = nFlashRead + 1
              /\ transfers' - transfers = 4 * Len(sent')
              /\ mem' = FlashByte(target.flash.kind,
                                  (tgtExt' * 65536 + cmd[2] * 256 + cmd[3]) * 2
                                    + (IF cmd[1] = 40 THEN 1 ELSE 0)) ]_vars

C18_Witness ==
    /\ pc = "session"
    /\ i >= 1
    /\ addr = 65537
    /\ sent[Len(sent)] = <<40, 128, 0, 0>>

\* C19: the extended byte E held by the chip, the word address W of the
\* second and third command bytes and the selector bit S of a read give
\* the address back, (E * 65536 + W) * 2 + S = addr, for addr < 262144;
\* stated for the states in which lastAddressMSB is the byte the chip holds.
C19_AddressReconstructed ==
    (pc = "session" /\ i >= 1 /\ addr < 262144 /\ lastAddressMSB = tgtExt) =>
        LET cmd == sent[Len(sent)]
        IN  (tgtExt * 65536 + cmd[2] * 256 + cmd[3]) * 2
              + (IF cmd[1] = 40 THEN 1 ELSE 0) = addr

\* C20: for every table entry with a bootloader and every value of the
\* selected fuse byte the product baseBootSize * multiplier is at most 8192,
\* so the 16-bit len holds it, and at most flashSize, so the start address
\* does not underflow and the region lies inside the flash.
C20_RegionInsideFlash ==
    Located =>
        LET product == currentSignature.baseBootSize
                         * <<8, 4, 2, 1>>[((SelectedFuse \div 2) % 4) + 1]
            L == EventVal("Bootloader is ")
            S == EventVal(" bytes starting at ")
        IN  /\ product <= 8192
            /\ product < 65536
            /\ L = product
            /\ L <= currentSignature.flashSize
            /\ S >= 0
            /\ S + L <= currentSignature.flashSize

C20_Witness ==
    /\ Located
    /\ pc = "hexDump"
    /\ len = 8192
    /\ currentSignature.flashSize = 65536

\* the chip was recognised as one with more than 64 KB of flash
LargeFlash == foundSig # -1 /\ currentSignature.flashSize > UINT

\* C21: the bootloader region of every table entry, for every size the fuse
\* selects, lies in one 64 KB segment, and a run sends at most two
\* load-extended-address commands: none for a chip of at most 64 KB, and
\* for a larger chip one at the first read of the hex dump, none in the
\* digest pass, and one at the first read of the program dump.
C21_AtMostTwoLoads ==
    /\ nLoadExt <= 2
    /\ Located =>
         LET S == EventVal(" bytes starting at ")
             L == EventVal("Bootloader is ")
         IN  /\ L >= 1
             /\ S \div 65536 = (S + L - 1) \div 65536
    /\ ~LargeFlash => nLoadExt = 0
    /\ LargeFlash =>
         /\ pc \in {"getFuseBytes", "readBootloader"} => nLoadExt = 0
         /\ pc = "hexDump" => nLoadExt = (IF i = 0 THEN 0 ELSE 1)
         /\ pc \in {"digest", "readProgram"} => nLoadExt = 1
         /\ pc = "programDump" => nLoadExt = (IF i = 0 THEN 1 ELSE 2)
         /\ pc = "done" => nLoadExt = 2

C21_Witness ==
    /\ pc = "done"
    /\ LargeFlash
    /\ currentSignature.flashSize = 262144
    /\ EventVal("Bootloader is ") = 8192
    /\ nLoadExt = 2
    /\ nFlashRead = 2 * 8192 + 256

\* the commands of a run besides the enable attempts and the flash reads:
\* 3 signature reads, 5 fuse, lock and calibration reads, 2 fuse reads of
\* readBootloader, 2 loads of the extended address byte
OtherCommandsMax == 3 + 5 + 2 + 2

\* the longest bootloader region, 1 KB times 8
RegionMax == 8 * kb

\* C22: whatever the chip answers, the run ends: the entry loop makes a
\* bounded number of attempts and fails or succeeds, after a success the
\* run makes 3 signature reads, the fuse reads, at most 2 * 8192 region
\* reads and 256 program-dump reads, and setup () reaches its end.
C22_RunTerminates ==
    /\ [](/\ attempts <= ENTER_PROGRAMMING_ATTEMPTS + 1
          /\ nFlashRead <= 2 * RegionMax + ProgramDumpLen
          /\ transfers <= 4 * (attempts + OtherCommandsMax + nFlashRead)
          /\ (pc = "done" /\ acknowledged) =>
                /\ nFlashRead = ProgramDumpLen
                     + (IF Located THEN 2 * EventVal("Bootloader is ") ELSE 0)
                /\ HasEvent("Signature = ")
                /\ FusesRead)
    /\ <>(pc = "done")

C22_Witness ==
    /\ pc = "done"
    /\ acknowledged
    /\ attempts = ENTER_PROGRAMMING_ATTEMPTS + 1
    /\ nFlashRead = 2 * RegionMax + ProgramDumpLen
    /\ transfers = 4 * (attempts + 3 + 5 + 2 + 2 + nFlashRead)

====
